---- MODULE Spec2Model ----
(***************************************************************************)
(* mcptest: the test orchestrator (runner.ts), the assertion evaluator     *)
(* (assertions.ts) and the configuration validator (config.ts).            *)
(*                                                                         *)
(* Encoding of JavaScript values:                                          *)
(*   - an optional field is a sequence of length 0 (undefined) or 1;       *)
(*   - a text (tool output, value, pattern) is a sequence of one-character *)
(*     strings, so substring search, joining and parsing are computed;     *)
(*   - a message is a sequence of tokens (the pieces of the template       *)
(*     literal, in order), texts being spliced in character by character.  *)
(***************************************************************************)
EXTENDS Integers, Sequences, FiniteSets, TLC

VARIABLES
    file,        \* the configuration file: its parsed content, if the file exists
    exitCode,    \* the status the process exited with, once it has
    stderr,      \* the message written to stderr, if any
    config,      \* validateConfig: the value returned; runTests: the argument
    pc,          \* runTests: control position
    idx,         \* runTests: 1-based position of the for-loop over config.tests
    results,     \* runTests: const results: TestResult[]
    responses,   \* each settled session call, in order: the reply and the clock readings
    caught,      \* runTests: the error bound by catch (e), if any
    events,      \* calls made on the McpClient, in order
    ajv,         \* assertions.ts: the module-level Ajv instance
    runResult,   \* runTests: the returned RunResult, once returned
    now,         \* Date.now(), in ms since the run started
    evAssertion, \* evaluateAssertion: the assertion argument
    evCtx,       \* evaluateAssertion: the ctx argument
    evalOut      \* evaluateAssertion: the outcomes of the calls made, in order

vars == <<file, exitCode, stderr, config, pc, idx, results, responses, caught, events, ajv,
          runResult, now, evAssertion, evCtx, evalOut>>

cliVars == <<file, exitCode, stderr>>
runVars == <<file, exitCode, stderr, config, pc, idx, results, responses, caught, events,
             runResult, now>>
evalVars == <<evAssertion, evCtx, evalOut>>

----------------------------------------------------------------------------
(* Bounds *)

MaxTests == 2      \* test cases in a configuration
MaxList == 2       \* entries in a tool / resource / prompt list
MaxBlocks == 2     \* content blocks in a tool-call result
MaxCount == 2      \* largest value of min / max / exact
MaxElapsed == 1    \* largest reading of the clock, in ms since the run started
MaxEvals == 2      \* calls of evaluateAssertion on the same arguments

----------------------------------------------------------------------------
(* Optional values *)

None == <<>>
Some(x) == <<x>>
IsSome(o) == o # <<>>
Val(o) == o[1]

RECURSIVE SeqsUpTo(_, _)
SeqsUpTo(S, n) ==
    IF n = 0 THEN {<<>>}
    ELSE LET shorter == SeqsUpTo(S, n - 1)
         IN  shorter \cup {Append(s, x) : s \in {t \in shorter : Len(t) = n - 1}, x \in S}

----------------------------------------------------------------------------
(* JavaScript built-ins used by the evaluators *)

Digits == <<"0", "1", "2", "3", "4", "5", "6", "7", "8", "9">>

\* String(n) for a non-negative integer
RECURSIVE NumberToString(_)
NumberToString(n) ==
    IF n < 10 THEN <<Digits[n + 1]>>
    ELSE NumberToString(n \div 10) \o <<Digits[(n % 10) + 1]>>

\* `${x}` of an optional number
OptNumberToString(o) ==
    IF IsSome(o) THEN NumberToString(Val(o))
    ELSE <<"u", "n", "d", "e", "f", "i", "n", "e", "d">>

\* `${x}` / ToString(x) of an optional text
OptTextToString(o) ==
    IF IsSome(o) THEN Val(o)
    ELSE <<"u", "n", "d", "e", "f", "i", "n", "e", "d">>

\* String.prototype.includes
Includes(text, needle) ==
    \E k \in 0..(Len(text) - Len(needle)) :
        SubSeq(text, k + 1, k + Len(needle)) = needle

\* Array.prototype.join
RECURSIVE Join(_, _)
Join(parts, sep) ==
    IF parts = <<>> THEN <<>>
    ELSE IF Len(parts) = 1 THEN parts[1]
    ELSE parts[1] \o sep \o Join(Tail(parts), sep)

\* new RegExp(pattern), for patterns over the characters 1 x ( and newline:
\* "(" opens a group that is never closed, which is a SyntaxError; the other
\* characters are literals.  new RegExp(undefined) is the empty pattern.
RegExpSource(pattern) == IF IsSome(pattern) THEN Val(pattern) ELSE <<>>
RegExpThrows(pattern) == \E k \in 1..Len(RegExpSource(pattern)) : RegExpSource(pattern)[k] = "("
\* regex.test(text) for a pattern of literals: a match anywhere in the text
RegExpTest(pattern, text) == Includes(text, RegExpSource(pattern))

\* JSON.parse(text), for texts over the characters 1 x ( { } and newline.
\* Whitespace (newline) around the value is skipped; the value is a number
\* (one or more 1s) or the empty object ({ whitespace }).  The outcome is the
\* kind of the parsed value, or "SyntaxError".
RECURSIVE TrimStart(_)
TrimStart(t) == IF t # <<>> /\ Head(t) = "\n" THEN TrimStart(Tail(t)) ELSE t
RECURSIVE TrimEnd(_)
TrimEnd(t) == IF t # <<>> /\ t[Len(t)] = "\n" THEN TrimEnd(SubSeq(t, 1, Len(t) - 1)) ELSE t
JSONParse(text) ==
    LET t == TrimEnd(TrimStart(text))
    IN  IF t # <<>> /\ \A k \in 1..Len(t) : t[k] = "1" THEN "number"
        ELSE IF Len(t) >= 2 /\ t[1] = "{" /\ t[Len(t)] = "}"
                /\ \A k \in 2..(Len(t) - 1) : t[k] = "\n" THEN "object"
        ELSE "SyntaxError"

----------------------------------------------------------------------------
(* Ajv: const ajv = new Ajv({ allErrors: true })                           *)
(* A schema is [kind, id, obj]: kind "any" is {}, "number"/"string"/       *)
(* "object" is {type: kind}, "bad" is {type: "foo"}, which is not a valid  *)
(* JSON Schema; id is the optional $id; obj is the identity of the schema  *)
(* object.  The instance keeps                                             *)
(*   cache    the schema objects it was given (_cache, keyed by object),   *)
(*   refs     the $id of every schema it was given (addUsedSchema is on),  *)
(*   compiled the schema objects that have a validate function.            *)

EmptyAjv == [refs |-> {}, cache |-> {}, compiled |-> {}]

\* ajv.compile(schema): [threw, message, ajv].  _addSchema returns the
\* cached environment of a known object; for a new object it caches the
\* object, then refuses an $id another object registered, then registers
\* the $id, then validates the schema against the meta-schema.  compile
\* then returns the validate function, generating it if there is none yet.
AjvCompile(schema, a) ==
    IF ~IsSome(schema)
    THEN [threw |-> TRUE, message |-> <<"schema must be object or boolean">>, ajv |-> a]
    ELSE LET s == Val(schema)
         IN  IF s.obj \in a.cache
             THEN IF s.obj \in a.compiled
                  THEN [threw |-> FALSE, message |-> <<>>, ajv |-> a]
                  ELSE IF s.kind = "bad"
                       THEN [threw |-> TRUE,
                             message |-> <<"type must be JSONType or JSONType[]: foo">>,
                             ajv |-> a]
                       ELSE [threw |-> FALSE, message |-> <<>>,
                             ajv |-> [a EXCEPT !.compiled = @ \cup {s.obj}]]
             ELSE LET a1 == [a EXCEPT !.cache = @ \cup {s.obj}]
                  IN  IF IsSome(s.id) /\ Val(s.id) \in a.refs
                      THEN [threw |-> TRUE,
                            message |-> <<"schema with key or id \"", Val(s.id), "\" already exists">>,
                            ajv |-> a1]
                      ELSE LET a2 == [a1 EXCEPT !.refs = @ \cup (IF IsSome(s.id) THEN {Val(s.id)} ELSE {})]
                           IN  IF s.kind = "bad"
                               THEN [threw |-> TRUE, message |-> <<"schema is invalid">>, ajv |-> a2]
                               ELSE [threw |-> FALSE, message |-> <<>>,
                                     ajv |-> [a2 EXCEPT !.compiled = @ \cup {s.obj}]]

\* validate(parsed) for a compiled schema of the given kind
AjvValidate(schema, parsedKind) == schema.kind = "any" \/ schema.kind = parsedKind

\* ajv.errorsText(validate.errors)
AjvErrorsText(schema) == <<"data must be ", schema.kind>>

----------------------------------------------------------------------------
(* assertions.ts *)

\* What a call of an evaluator produces: an AssertionResult, a thrown error,
\* or (for a function that is not an evaluator) a value that is not an
\* AssertionResult and so has no passed flag and no message.
Result(passed, message, a) ==
    [kind |-> "result", passed |-> passed, message |-> message, assertion |-> a]
Thrown(message, a) ==
    [kind |-> "throw", passed |-> FALSE, message |-> message, assertion |-> a]
NonResult(a) ==
    [kind |-> "nonresult", passed |-> FALSE, message |-> <<>>, assertion |-> a]

\* an evaluator that does not touch the Ajv instance
Pure(out, aj) == [out |-> out, ajv |-> aj]

RECURSIVE getOutputTextParts(_)
getOutputTextParts(content) ==
    IF content = <<>> THEN <<>>
    ELSE LET c == Head(content)
         IN  IF c.type = "text" /\ IsSome(c.text) /\ Val(c.text) # <<>>
             THEN <<Val(c.text)>> \o getOutputTextParts(Tail(content))
             ELSE getOutputTextParts(Tail(content))
\* getOutputText joining the parts with the empty string
getOutputText_noSeparator(result) == Join(getOutputTextParts(result.content), <<>>)

getOutputText(result) == Join(getOutputTextParts(result.content), <<"\n">>)

\* checkCount with the range still applied when exact is given
checkCount_rangeWithExact(actual, label, a) ==
    LET minOk == ~IsSome(a.min) \/ actual >= Val(a.min)
        maxOk == ~IsSome(a.max) \/ actual <= Val(a.max)
    IN  IF IsSome(a.exact)
        THEN Result(actual = Val(a.exact) /\ minOk /\ maxOk,
                    <<label, " count is ">> \o NumberToString(actual), a)
        ELSE Result(minOk /\ maxOk, <<label, " count is ">> \o NumberToString(actual), a)

checkCount(actual, label, a) ==
    IF IsSome(a.exact)
    THEN Result(actual = Val(a.exact),
                IF actual = Val(a.exact)
                THEN <<label, " count is exactly ">> \o NumberToString(Val(a.exact))
                ELSE <<"Expected exactly ">> \o NumberToString(Val(a.exact))
                     \o <<" ", label, ", got ">> \o NumberToString(actual),
                a)
    ELSE LET minOk == ~IsSome(a.min) \/ actual >= Val(a.min)
             maxOk == ~IsSome(a.max) \/ actual <= Val(a.max)
             okParts == (IF IsSome(a.min) THEN <<<<">= ">> \o NumberToString(Val(a.min))>> ELSE <<>>)
                        \o (IF IsSome(a.max) THEN <<<<"<= ">> \o NumberToString(Val(a.max))>> ELSE <<>>)
             badParts == (IF ~minOk THEN <<<<"expected >= ">> \o OptNumberToString(a.min)>> ELSE <<>>)
                         \o (IF ~maxOk THEN <<<<"expected <= ">> \o OptNumberToString(a.max)>> ELSE <<>>)
         IN  IF minOk /\ maxOk
             THEN Result(TRUE,
                         <<label, " count is ">> \o NumberToString(actual) \o <<" (">>
                         \o (IF okParts = <<>> THEN <<"any">> ELSE Join(okParts, <<" and ">>))
                         \o <<")">>,
                         a)
             ELSE Result(FALSE,
                         <<label, " count is ">> \o NumberToString(actual) \o <<", but ">>
                         \o Join(badParts, <<" and ">>),
                         a)

\* ctx.toolResult.isError as a condition: undefined and false are falsy
IsErrorTruthy(toolResult) == toolResult.isError = Some(TRUE)

\* success requiring isError === false
success_strictFalse(a, c) ==
    LET passed == IsSome(c.toolResult) /\ Val(c.toolResult).isError = Some(FALSE)
    IN  Result(passed,
               IF passed THEN <<"Tool call succeeded">> ELSE <<"Expected success but got error">>,
               a)

success(a, c) ==
    LET passed == IsSome(c.toolResult) /\ ~IsErrorTruthy(Val(c.toolResult))
    IN  Result(passed,
               IF passed THEN <<"Tool call succeeded">> ELSE <<"Expected success but got error">>,
               a)

error(a, c) ==
    LET passed == IsSome(c.toolResult) /\ Val(c.toolResult).isError = Some(TRUE)
    IN  Result(passed,
               IF passed THEN <<"Tool call returned error as expected">>
               ELSE <<"Expected error but call succeeded">>,
               a)

\* error_contains that searches the text whatever isError is
error_contains_ignoresIsError(a, c) ==
    IF ~IsSome(c.toolResult)
    THEN Result(FALSE, <<"Expected error but call succeeded">>, a)
    ELSE LET text == getOutputText(Val(c.toolResult))
             contains == Includes(text, OptTextToString(a.value))
         IN  Result(contains,
                    IF contains
                    THEN <<"Error contains \"">> \o OptTextToString(a.value) \o <<"\"">>
                    ELSE <<"Error does not contain \"">> \o OptTextToString(a.value)
                         \o <<"\". Got: \"">> \o text \o <<"\"">>,
                    a)

error_contains(a, c) ==
    IF ~IsSome(c.toolResult) \/ ~IsErrorTruthy(Val(c.toolResult))
    THEN Result(FALSE, <<"Expected error but call succeeded">>, a)
    ELSE LET text == getOutputText(Val(c.toolResult))
             contains == Includes(text, OptTextToString(a.value))
         IN  Result(contains,
                    IF contains
                    THEN <<"Error contains \"">> \o OptTextToString(a.value) \o <<"\"">>
                    ELSE <<"Error does not contain \"">> \o OptTextToString(a.value)
                         \o <<"\". Got: \"">> \o text \o <<"\"">>,
                    a)

output_contains(a, c) ==
    IF ~IsSome(c.toolResult)
    THEN Result(FALSE, <<"No tool result">>, a)
    ELSE LET text == getOutputText(Val(c.toolResult))
             contains == Includes(text, OptTextToString(a.value))
         IN  Result(contains,
                    IF contains
                    THEN <<"Output contains \"">> \o OptTextToString(a.value) \o <<"\"">>
                    ELSE <<"Output does not contain \"">> \o OptTextToString(a.value)
                         \o <<"\". Got: \"">> \o text \o <<"\"">>,
                    a)

\* output_matches with the pattern compiled before the tool result is
\* looked at
output_matches_regexFirst(a, c) ==
    IF RegExpThrows(a.pattern)
    THEN Thrown(<<"Invalid regular expression: /">> \o RegExpSource(a.pattern) \o <<"/">>, a)
    ELSE IF ~IsSome(c.toolResult)
         THEN Result(FALSE, <<"No tool result">>, a)
         ELSE LET text == getOutputText(Val(c.toolResult))
                  matches == RegExpTest(a.pattern, text)
              IN  Result(matches,
                         IF matches
                         THEN <<"Output matches pattern /">> \o OptTextToString(a.pattern) \o <<"/">>
                         ELSE <<"Output does not match /">> \o OptTextToString(a.pattern)
                              \o <<"/. Got: \"">> \o text \o <<"\"">>,
                         a)

output_matches(a, c) ==
    IF ~IsSome(c.toolResult)
    THEN Result(FALSE, <<"No tool result">>, a)
    ELSE LET text == getOutputText(Val(c.toolResult))
         IN  IF RegExpThrows(a.pattern)
             THEN Thrown(<<"Invalid regular expression: /">> \o RegExpSource(a.pattern) \o <<"/">>, a)
             ELSE LET matches == RegExpTest(a.pattern, text)
                  IN  Result(matches,
                             IF matches
                             THEN <<"Output matches pattern /">> \o OptTextToString(a.pattern) \o <<"/">>
                             ELSE <<"Output does not match /">> \o OptTextToString(a.pattern)
                                  \o <<"/. Got: \"">> \o text \o <<"\"">>,
                             a)

output_json(a, c) ==
    IF ~IsSome(c.toolResult)
    THEN Result(FALSE, <<"No tool result">>, a)
    ELSE LET text == getOutputText(Val(c.toolResult))
         IN  IF JSONParse(text) # "SyntaxError"
             THEN Result(TRUE, <<"Output is valid JSON">>, a)
             ELSE Result(FALSE,
                         <<"Output is not valid JSON: \"">>
                         \o SubSeq(text, 1, IF Len(text) < 100 THEN Len(text) ELSE 100) \o <<"\"">>,
                         a)

output_json_schema(a, c, aj) ==
    IF ~IsSome(c.toolResult)
    THEN Pure(Result(FALSE, <<"No tool result">>, a), aj)
    ELSE LET text == getOutputText(Val(c.toolResult))
             parsed == JSONParse(text)
         IN  IF parsed = "SyntaxError"
             THEN Pure(Result(FALSE, <<"Output is not valid JSON">>, a), aj)
             ELSE LET compiled == AjvCompile(a.schema, aj)
                  IN  IF compiled.threw
                      THEN [out |-> Thrown(compiled.message, a), ajv |-> compiled.ajv]
                      ELSE LET valid == AjvValidate(Val(a.schema), parsed)
                           IN  [out |-> Result(valid,
                                               IF valid THEN <<"Output matches JSON Schema">>
                                               ELSE <<"Output does not match schema: ">>
                                                    \o AjvErrorsText(Val(a.schema)),
                                               a),
                                ajv |-> compiled.ajv]

\* `${name}` of an optional name
OptNameToString(o) == IF IsSome(o) THEN <<Val(o)>> ELSE <<"undefined">>

\* ctx.tools.map((t) => t.name), each name as join() renders it
RECURSIVE ToolNames(_)
ToolNames(tools) ==
    IF tools = <<>> THEN <<>>
    ELSE <<(IF IsSome(Head(tools).name) THEN <<Val(Head(tools).name)>> ELSE <<>>)>>
         \o ToolNames(Tail(tools))

contains_tool(a, c) ==
    IF ~IsSome(c.tools)
    THEN Result(FALSE, <<"No tools available">>, a)
    ELSE LET found == \E k \in 1..Len(Val(c.tools)) : Val(c.tools)[k].name = a.name
         IN  Result(found,
                    IF found
                    THEN <<"Tools list contains \"">> \o OptNameToString(a.name) \o <<"\"">>
                    ELSE <<"Tools list does not contain \"">> \o OptNameToString(a.name)
                         \o <<"\". Available: ">> \o Join(ToolNames(Val(c.tools)), <<", ">>),
                    a)

\* ctx.<list>?.length ?? 0
LengthOrZero(list) == IF IsSome(list) THEN Len(Val(list)) ELSE 0

\* tool_count counting the resources list
tool_count_countsResources(a, c) == checkCount(LengthOrZero(c.resources), "tool", a)

tool_count(a, c) == checkCount(LengthOrZero(c.tools), "tool", a)

resource_count(a, c) == checkCount(LengthOrZero(c.resources), "resource", a)

prompt_count(a, c) == checkCount(LengthOrZero(c.prompts), "prompt", a)

\* the for-loop of schema_valid: the errors collected and the Ajv instance
\* after visiting the tools in order
RECURSIVE schema_valid_loop(_, _, _)
schema_valid_loop(tools, errors, aj) ==
    IF tools = <<>> THEN [errors |-> errors, ajv |-> aj]
    ELSE LET tool == Head(tools)
             e1 == IF ~IsSome(tool.name) \/ Val(tool.name) = ""
                   THEN Append(errors, <<"Tool missing 'name'">>)
                   ELSE errors
         IN  IF IsSome(tool.inputSchema)
             THEN LET compiled == AjvCompile(tool.inputSchema, aj)
                  IN  schema_valid_loop(
                          Tail(tools),
                          IF compiled.threw
                          THEN Append(e1, <<"Tool \"">> \o OptNameToString(tool.name)
                                          \o <<"\" has invalid inputSchema: ">> \o compiled.message)
                          ELSE e1,
                          compiled.ajv)
             ELSE schema_valid_loop(Tail(tools), e1, aj)

schema_valid(a, c, aj) ==
    IF ~IsSome(c.tools) \/ Len(Val(c.tools)) = 0
    THEN Pure(Result(FALSE, <<"No tools to validate">>, a), aj)
    ELSE LET after == schema_valid_loop(Val(c.tools), <<>>, aj)
         IN  [out |-> Result(Len(after.errors) = 0,
                             IF Len(after.errors) = 0
                             THEN <<"All tool schemas are valid">>
                             ELSE <<"Schema errors: ">> \o Join(after.errors, <<"; ">>),
                             a),
              ajv |-> after.ajv]

\* response_time with ms < limit
response_time_strict(a, c) ==
    LET ms == IF IsSome(c.elapsedMs) THEN Val(c.elapsedMs) ELSE 0
        passed == IsSome(a.ms) /\ ms < Val(a.ms)
    IN  Result(passed,
               IF passed
               THEN <<"Response time ">> \o NumberToString(ms) \o <<"ms <= ">>
                    \o OptNumberToString(a.ms) \o <<"ms">>
               ELSE <<"Response time ">> \o NumberToString(ms) \o <<"ms exceeded ">>
                    \o OptNumberToString(a.ms) \o <<"ms limit">>,
               a)

response_time(a, c) ==
    LET ms == IF IsSome(c.elapsedMs) THEN Val(c.elapsedMs) ELSE 0
        \* ms <= undefined is false
        passed == IsSome(a.ms) /\ ms <= Val(a.ms)
    IN  Result(passed,
               IF passed
               THEN <<"Response time ">> \o NumberToString(ms) \o <<"ms <= ">>
                    \o OptNumberToString(a.ms) \o <<"ms">>
               ELSE <<"Response time ">> \o NumberToString(ms) \o <<"ms exceeded ">>
                    \o OptNumberToString(a.ms) \o <<"ms limit">>,
               a)

\* the own keys of the evaluators object literal
EvaluatorKeys ==
    {"success", "error", "error_contains", "output_contains", "output_matches",
     "output_json", "output_json_schema", "contains_tool", "tool_count",
     "resource_count", "prompt_count", "schema_valid", "response_time"}

\* evaluators is a plain object, so evaluators[key] also finds what every
\* object inherits from Object.prototype
ObjectPrototypeKeys == {"constructor", "toString", "hasOwnProperty", "__proto__"}

\* evaluators[type](assertion, ctx) for an own key
evaluators(type, a, c, aj) ==
    CASE type = "success" -> Pure(success(a, c), aj)
      [] type = "error" -> Pure(error(a, c), aj)
      [] type = "error_contains" -> Pure(error_contains(a, c), aj)
      [] type = "output_contains" -> Pure(output_contains(a, c), aj)
      [] type = "output_matches" -> Pure(output_matches(a, c), aj)
      [] type = "output_json" -> Pure(output_json(a, c), aj)
      [] type = "output_json_schema" -> output_json_schema(a, c, aj)
      [] type = "contains_tool" -> Pure(contains_tool(a, c), aj)
      [] type = "tool_count" -> Pure(tool_count(a, c), aj)
      [] type = "resource_count" -> Pure(resource_count(a, c), aj)
      [] type = "prompt_count" -> Pure(prompt_count(a, c), aj)
      [] type = "schema_valid" -> schema_valid(a, c, aj)
      [] type = "response_time" -> Pure(response_time(a, c), aj)

\* evaluators[type](assertion, ctx) for a key inherited from Object.prototype:
\* Object(assertion) returns the assertion and toString returns a string,
\* neither of which is an AssertionResult; hasOwnProperty throws on an
\* undefined receiver; __proto__ is an object, not a function
inheritedMember(type, a) ==
    CASE type = "constructor" -> NonResult(a)
      [] type = "toString" -> NonResult(a)
      [] type = "hasOwnProperty" -> Thrown(<<"Cannot convert undefined or null to object">>, a)
      [] type = "__proto__" -> Thrown(<<"evaluator is not a function">>, a)

evaluateAssertion(a, c, aj) ==
    IF a.type \in EvaluatorKeys THEN evaluators(a.type, a, c, aj)
    ELSE IF a.type \in ObjectPrototypeKeys THEN Pure(inheritedMember(a.type, a), aj)
    ELSE Pure(Result(FALSE, <<"Unknown assertion type: ", a.type>>, a), aj)

----------------------------------------------------------------------------
(* The values the evaluator is applied to *)

Schema(kind, id) == [kind |-> kind, id |-> id, obj |-> 0]

\* the schema as the object at address o: every parsed document is an object
\* of its own
SchemaAt(s, o) == [s EXCEPT !.obj = o]

\* a tool list as parsed from a reply: the input schemas are distinct objects
AllocateTools(tools, base) ==
    [k \in 1..Len(tools) |->
        IF IsSome(tools[k].inputSchema)
        THEN [tools[k] EXCEPT !.inputSchema = Some(SchemaAt(Val(@), base + k))]
        ELSE tools[k]]
Schemas == {Schema(k, i) : k \in {"any", "number", "string", "object", "bad"},
                           i \in {None, Some("s")}}
OptSchemas == {None} \cup {Some(s) : s \in Schemas}

\* Assertion (config.ts): type plus the optional fields
NoFields(type) ==
    [type |-> type, name |-> None, value |-> None, pattern |-> None, min |-> None,
     max |-> None, exact |-> None, schema |-> None, ms |-> None]

OptCounts == {None} \cup {Some(n) : n \in 0..MaxCount}
OptTexts ==
    {None, Some(<<>>), Some(<<"1">>), Some(<<"x">>), Some(<<"\n">>), Some(<<"1", "\n", "x">>)}
OptPatterns == {None, Some(<<>>), Some(<<"1">>), Some(<<"x", "1">>), Some(<<"(">>), Some(<<"1", "(">>)}
OptNames == {None, Some("a"), Some("b")}
OptMs == {None} \cup {Some(n) : n \in 0..MaxElapsed}

UnknownTypes == {"bogus", ""} \cup ObjectPrototypeKeys

Assertions ==
    {NoFields(t) : t \in {"success", "error", "output_json", "schema_valid"} \cup UnknownTypes}
    \cup {[NoFields(t) EXCEPT !.value = v] : t \in {"error_contains", "output_contains"}, v \in OptTexts}
    \cup {[NoFields("output_matches") EXCEPT !.pattern = p] : p \in OptPatterns}
    \cup {[NoFields("output_json_schema") EXCEPT !.schema = s] : s \in OptSchemas}
    \cup {[NoFields("contains_tool") EXCEPT !.name = n] : n \in OptNames}
    \cup {[NoFields(t) EXCEPT !.min = lo, !.max = hi, !.exact = ex] :
              t \in {"tool_count", "resource_count", "prompt_count"},
              lo \in OptCounts, hi \in OptCounts, ex \in OptCounts}
    \cup {[NoFields("response_time") EXCEPT !.ms = m] : m \in OptMs}

\* content blocks of a ToolCallResult (client.ts)
Blocks ==
    {[type |-> "text", text |-> t] :
         t \in {None, Some(<<>>), Some(<<"1">>), Some(<<"x">>), Some(<<"{", "}">>)}}
    \cup {[type |-> "image", text |-> t] : t \in {None, Some(<<"1">>)}}

ToolCallResults ==
    {[content |-> content, isError |-> e] :
         content \in SeqsUpTo(Blocks, MaxBlocks), e \in {None, Some(FALSE), Some(TRUE)}}

\* McpTool (client.ts); the name is declared required but schema_valid
\* checks for a missing one
Tools ==
    {[name |-> Some("a"), description |-> Some("d"), inputSchema |-> s] :
         s \in {None, Some(Schema("any", None)), Some(Schema("bad", None)),
                Some(Schema("number", Some("s")))}}
    \cup {[name |-> n, description |-> Some("d"), inputSchema |-> s] :
              n \in {None, Some("")}, s \in {None, Some(Schema("any", None))}}
    \cup {[name |-> Some("a"), description |-> None, inputSchema |-> s] :
              s \in {None, Some(Schema("any", None))}}

ToolLists == {AllocateTools(l, 0) : l \in SeqsUpTo(Tools, MaxList)}

\* for resources and prompts only the length of the list is observed
ResourceLists == SeqsUpTo({[uri |-> "r"]}, MaxList)
PromptLists == SeqsUpTo({[name |-> "p"]}, MaxList)

\* AssertionContext (assertions.ts)
EmptyCtx ==
    [tools |-> None, resources |-> None, prompts |-> None, toolResult |-> None,
     elapsedMs |-> None]

Contexts ==
    {[EmptyCtx EXCEPT !.elapsedMs = m] : m \in OptMs}
    \cup {[EmptyCtx EXCEPT !.toolResult = Some(r), !.elapsedMs = Some(0)] : r \in ToolCallResults}
    \cup {[EmptyCtx EXCEPT !.tools = Some(l), !.elapsedMs = Some(0)] : l \in ToolLists}
    \cup {[EmptyCtx EXCEPT !.resources = Some(l), !.elapsedMs = Some(0)] : l \in ResourceLists}
    \cup {[EmptyCtx EXCEPT !.prompts = Some(l), !.elapsedMs = Some(0)] : l \in PromptLists}

\* the value of config before a configuration is loaded
NoConfig ==
    [server |-> [command |-> None, args |-> None, env |-> None, transport |-> None,
                 url |-> None, headers |-> None],
     tests |-> <<>>]

\* const runStart = Date.now(): the clock is counted from the start of the run
runStart == 0

\* states of the Ajv instance an evaluation can start from: fresh, or after
\* another schema object with $id "s" was compiled
AjvStates == {EmptyAjv, [refs |-> {"s"}, cache |-> {99}, compiled |-> {99}]}

----------------------------------------------------------------------------
(* EvalSpec: calls of evaluateAssertion on arbitrary arguments, the same   *)
(* arguments every time                                                   *)

NoRun ==
    /\ file = None
    /\ exitCode = None
    /\ stderr = None
    /\ config = NoConfig
    /\ pc = "off"
    /\ idx = 1
    /\ results = <<>>
    /\ responses = <<>>
    /\ caught = None
    /\ events = <<>>
    /\ runResult = None
    /\ now = runStart

\* the arguments of the call; the compiler may have been used before when
\* the assertion is of one of the two types whose evaluators compile
EvalInit ==
    /\ NoRun
    /\ evAssertion \in Assertions
    /\ evCtx \in Contexts
    /\ ajv \in (IF evAssertion.type \in {"output_json_schema", "schema_valid"}
                THEN AjvStates ELSE {EmptyAjv})
    /\ evalOut = None

\* const result = evaluateAssertion(assertion, ctx)
Evaluate ==
    /\ pc = "off"
    /\ Len(evalOut) < MaxEvals
    /\ LET r == evaluateAssertion(evAssertion, evCtx, ajv)
       IN  /\ evalOut' = Append(evalOut, r.out)
           /\ ajv' = r.ajv
    /\ UNCHANGED <<evAssertion, evCtx>>
    /\ UNCHANGED runVars

EvalNext == Evaluate

EvalSpec == EvalInit /\ [][EvalNext]_vars

----------------------------------------------------------------------------
(* config.ts *)

VALID_ACTIONS == {"list_tools", "call_tool", "list_resources", "list_prompts"}

VALID_ASSERTION_TYPES ==
    {"success", "error", "error_contains", "output_contains", "output_matches",
     "output_json", "output_json_schema", "contains_tool", "tool_count",
     "resource_count", "prompt_count", "schema_valid", "response_time"}

\* The value validateConfig is given, as parsed from the YAML file:
\*   [kind, server, tests], kind being "object", "null" or "string" (typeof);
\*   server is absent or [command, args, env, transport, url, headers], the
\*   strings command, transport and url being optional, and args, env and
\*   headers being absent or the kind of value found ("array", "object",
\*   "string");
\*   tests is absent or a list of [name, action, tool, assert], name and tool
\*   being optional strings and assert absent or a list of assertions.
Server(command, args, env, transport, url, headers) ==
    [command |-> command, args |-> args, env |-> env, transport |-> transport,
     url |-> url, headers |-> headers]

\* validateAssertion without the test of the type
validateAssertion_acceptsAny(a, i, j) == <<>>

\* the for-loop over test.assert: the message thrown for assertion j of test i
validateAssertion(a, i, j) ==
    IF a.type \notin VALID_ASSERTION_TYPES
    THEN <<"tests[">> \o NumberToString(i) \o <<"].assert[">> \o NumberToString(j)
         \o <<"].type '", a.type, "' is not valid">>
    ELSE <<>>

\* the least element of a non-empty set of indexes
First(S) == CHOOSE k \in S : \A l \in S : k <= l

\* the body of the for-loop over c.tests without the check of tool
validateTest_toolOptional(test, i) ==
    IF ~IsSome(test.name) \/ Val(test.name) = ""
    THEN <<"tests[">> \o NumberToString(i) \o <<"].name must be a non-empty string">>
    ELSE IF test.action \notin VALID_ACTIONS
    THEN <<"tests[">> \o NumberToString(i) \o <<"].action must be one of: ">>
    ELSE IF ~IsSome(test.assert) \/ Len(Val(test.assert)) = 0
    THEN <<"tests[">> \o NumberToString(i) \o <<"].assert must be a non-empty array">>
    ELSE LET asserts == Val(test.assert)
             bad == {j \in 1..Len(asserts) : validateAssertion(asserts[j], i, j - 1) # <<>>}
         IN  IF bad = {} THEN <<>> ELSE validateAssertion(asserts[First(bad)], i, First(bad) - 1)

\* the body of the for-loop over c.tests: the message thrown for test i, or
\* the empty message
validateTest(test, i) ==
    IF ~IsSome(test.name) \/ Val(test.name) = ""
    THEN <<"tests[">> \o NumberToString(i) \o <<"].name must be a non-empty string">>
    ELSE IF test.action \notin VALID_ACTIONS
    THEN <<"tests[">> \o NumberToString(i) \o <<"].action must be one of: ">>
    ELSE IF test.action = "call_tool" /\ ~IsSome(test.tool)
    THEN <<"tests[">> \o NumberToString(i) \o <<"] with action 'call_tool' must specify 'tool'">>
    ELSE IF ~IsSome(test.assert) \/ Len(Val(test.assert)) = 0
    THEN <<"tests[">> \o NumberToString(i) \o <<"].assert must be a non-empty array">>
    ELSE LET asserts == Val(test.assert)
             bad == {j \in 1..Len(asserts) : validateAssertion(asserts[j], i, j - 1) # <<>>}
         IN  IF bad = {} THEN <<>> ELSE validateAssertion(asserts[First(bad)], i, First(bad) - 1)

\* the message of the Error validateConfig throws, or the empty message when
\* it returns; transport, url and headers are not read
validateConfigError(c) ==
    IF c.kind # "object" THEN <<"Config must be an object">>
    ELSE IF ~IsSome(c.server) THEN <<"Config must have a 'server' section">>
    ELSE LET server == Val(c.server)
         IN  IF ~IsSome(server.command) \/ Val(server.command) = ""
             THEN <<"server.command must be a non-empty string">>
             ELSE IF IsSome(server.args) /\ Val(server.args) # "array"
             THEN <<"server.args must be an array">>
             ELSE IF IsSome(server.env) /\ Val(server.env) # "object"
             THEN <<"server.env must be an object">>
             ELSE IF ~IsSome(c.tests) \/ Len(Val(c.tests)) = 0
             THEN <<"Config must have a non-empty 'tests' array">>
             ELSE LET tests == Val(c.tests)
                      bad == {i \in 1..Len(tests) : validateTest(tests[i], i - 1) # <<>>}
                  IN  IF bad = {} THEN <<>> ELSE validateTest(tests[First(bad)], First(bad) - 1)

\* validateConfig without the loop over the tests
validateConfig_skipsTests(c) ==
    /\ c.kind = "object"
    /\ IsSome(c.server)
    /\ IsSome(c.tests)
    /\ Val(c.tests) # <<>>

\* TRUE iff validateConfig returns the configuration instead of throwing
validateConfig(c) == validateConfigError(c) = <<>>

\* return config as McpTestConfig: the same object, read with the declared
\* types (the fields validateConfig found present are read directly)
AsMcpTestConfig(c) ==
    [server |-> Val(c.server),
     tests |-> [i \in 1..Len(Val(c.tests)) |->
                   [name |-> Val(Val(c.tests)[i].name),
                    action |-> Val(c.tests)[i].action,
                    tool |-> Val(c.tests)[i].tool,
                    assert |-> Val(Val(c.tests)[i].assert)]]]

----------------------------------------------------------------------------
(* runner.ts *)

\* what the session answers to a request: a thrown error, or the list or
\* tool-call result the request asked for
Reply(field, value) ==
    [threw |-> FALSE, message |-> <<>>,
     payload |-> [[tools |-> None, resources |-> None, prompts |-> None,
                   toolResult |-> None] EXCEPT ![field] = Some(value)]]
SessionError(message) ==
    [threw |-> TRUE, message |-> <<message>>,
     payload |-> [tools |-> None, resources |-> None, prompts |-> None, toolResult |-> None]]

\* assertions.every((a) => a.passed): a value without a passed flag is falsy
PassedTruthy(a) == a.kind = "result" /\ a.passed

\* test.assert.map((a) => evaluateAssertion(a, ctx)): the results, or the
\* first error thrown, and the Ajv instance afterwards
RECURSIVE mapAssertions(_, _, _, _)
mapAssertions(asserts, c, aj, done) ==
    IF asserts = <<>> THEN [threw |-> FALSE, message |-> <<>>, assertions |-> done, ajv |-> aj]
    ELSE LET r == evaluateAssertion(Head(asserts), c, aj)
         IN  IF r.out.kind = "throw"
             THEN [threw |-> TRUE, message |-> r.out.message, assertions |-> <<>>, ajv |-> r.ajv]
             ELSE mapAssertions(Tail(asserts), c, r.ajv, Append(done, r.out))

\* buildContext with the tool list of the session kept in the context of
\* every action
buildContext_keepsTools(test, reply, elapsed) ==
    [EmptyCtx EXCEPT !.tools = IF test.action = "list_tools" THEN reply.payload.tools ELSE Some(<<>>),
                     !.toolResult = IF test.action = "call_tool" THEN reply.payload.toolResult ELSE None,
                     !.resources = IF test.action = "list_resources" THEN reply.payload.resources ELSE None,
                     !.prompts = IF test.action = "list_prompts" THEN reply.payload.prompts ELSE None,
                     !.elapsedMs = Some(elapsed)]

\* the switch on test.action: the context built from the session's reply
buildContext(test, reply, elapsed) ==
    LET c0 == EmptyCtx
        c1 == CASE test.action = "list_tools" -> [c0 EXCEPT !.tools = reply.payload.tools]
                [] test.action = "call_tool" -> [c0 EXCEPT !.toolResult = reply.payload.toolResult]
                [] test.action = "list_resources" -> [c0 EXCEPT !.resources = reply.payload.resources]
                [] test.action = "list_prompts" -> [c0 EXCEPT !.prompts = reply.payload.prompts]
                [] OTHER -> c0
    IN  [c1 EXCEPT !.elapsedMs = Some(elapsed)]

\* runSingleTest with assertions.some in place of assertions.every
runSingleTest_some(test, reply, elapsed, late, aj) ==
    IF reply.threw
    THEN [result |-> [name |-> test.name, passed |-> FALSE, assertions |-> <<>>,
                      error |-> Some(reply.message), elapsedMs |-> late],
          ajv |-> aj]
    ELSE LET m == mapAssertions(test.assert, buildContext(test, reply, elapsed), aj, <<>>)
         IN  IF m.threw
             THEN [result |-> [name |-> test.name, passed |-> FALSE, assertions |-> <<>>,
                               error |-> Some(m.message), elapsedMs |-> late],
                   ajv |-> m.ajv]
             ELSE [result |-> [name |-> test.name,
                               passed |-> \E k \in 1..Len(m.assertions) : PassedTruthy(m.assertions[k]),
                               assertions |-> m.assertions,
                               error |-> None,
                               elapsedMs |-> elapsed],
                   ajv |-> m.ajv]

\* runSingleTest once the session call has settled: reply is what the call
\* returned or threw, elapsed the time measured after the call, late the
\* time measured in the catch block.  Yields the TestResult and the Ajv
\* instance afterwards.
runSingleTest(test, reply, elapsed, late, aj) ==
    IF reply.threw
    THEN [result |-> [name |-> test.name, passed |-> FALSE, assertions |-> <<>>,
                      error |-> Some(reply.message), elapsedMs |-> late],
          ajv |-> aj]
    ELSE LET m == mapAssertions(test.assert, buildContext(test, reply, elapsed), aj, <<>>)
         IN  IF m.threw
             THEN [result |-> [name |-> test.name, passed |-> FALSE, assertions |-> <<>>,
                               error |-> Some(m.message), elapsedMs |-> late],
                   ajv |-> m.ajv]
             ELSE [result |-> [name |-> test.name,
                               passed |-> \A k \in 1..Len(m.assertions) : PassedTruthy(m.assertions[k]),
                               assertions |-> m.assertions,
                               error |-> None,
                               elapsedMs |-> elapsed],
                   ajv |-> m.ajv]

\* the request runSingleTest issues for an action
RequestOf(action) ==
    CASE action = "list_tools" -> "listTools"
      [] action = "call_tool" -> "callTool"
      [] action = "list_resources" -> "listResources"
      [] action = "list_prompts" -> "listPrompts"

Requests == {"listTools", "callTool", "listResources", "listPrompts"}

\* the catch block with the test's name put into the message
RECURSIVE markRemaining_namedMessage(_, _, _)
markRemaining_namedMessage(tests, res, message) ==
    IF tests = <<>> THEN res
    ELSE IF \E k \in 1..Len(res) : res[k].name = Head(tests).name
         THEN markRemaining_namedMessage(Tail(tests), res, message)
         ELSE markRemaining_namedMessage(
                  Tail(tests),
                  Append(res, [name |-> Head(tests).name, passed |-> FALSE, assertions |-> <<>>,
                               error |-> Some(<<"Server connection error: ", Head(tests).name>>
                                              \o message),
                               elapsedMs |-> 0]),
                  message)

\* the catch block of runTests: a failed entry for every test that has no
\* result of the same name yet
RECURSIVE markRemaining(_, _, _)
markRemaining(tests, res, message) ==
    IF tests = <<>> THEN res
    ELSE IF \E k \in 1..Len(res) : res[k].name = Head(tests).name
         THEN markRemaining(Tail(tests), res, message)
         ELSE markRemaining(
                  Tail(tests),
                  Append(res, [name |-> Head(tests).name, passed |-> FALSE, assertions |-> <<>>,
                               error |-> Some(<<"Server connection error: ">> \o message),
                               elapsedMs |-> 0]),
                  message)

\* results.reduce((sum, r) => sum + r.assertions.length, 0)
RECURSIVE totalAssertionsOf(_)
totalAssertionsOf(res) ==
    IF res = <<>> THEN 0 ELSE Len(Head(res).assertions) + totalAssertionsOf(Tail(res))

\* results.reduce((sum, r) => sum + r.assertions.filter((a) => a.passed).length, 0)
RECURSIVE passedAssertionsOf(_)
passedAssertionsOf(res) ==
    IF res = <<>> THEN 0
    ELSE Cardinality({k \in 1..Len(Head(res).assertions) : PassedTruthy(Head(res).assertions[k])})
         + passedAssertionsOf(Tail(res))

\* makeRunResult with totalFailed counting only the tests that recorded an
\* error
makeRunResult_failedByError(res, elapsed) ==
    [tests |-> res,
     totalPassed |-> Cardinality({k \in 1..Len(res) : res[k].passed}),
     totalFailed |-> Cardinality({k \in 1..Len(res) : IsSome(res[k].error)}),
     totalAssertions |-> totalAssertionsOf(res),
     passedAssertions |-> passedAssertionsOf(res),
     elapsedMs |-> elapsed]

\* the RunResult literal returned by runTests
makeRunResult(res, elapsed) ==
    [tests |-> res,
     totalPassed |-> Cardinality({k \in 1..Len(res) : res[k].passed}),
     totalFailed |-> Cardinality({k \in 1..Len(res) : ~res[k].passed}),
     totalAssertions |-> totalAssertionsOf(res),
     passedAssertions |-> passedAssertionsOf(res),
     elapsedMs |-> elapsed]

----------------------------------------------------------------------------
(* The configurations and session behaviours a run is checked on *)

\* a test as parsed from the file: name and assert may be missing
Test(name, action, tool, assert) ==
    [name |-> name, action |-> action, tool |-> tool, assert |-> assert]

\* server: {command: node}
StdioServer == Server(Some("node"), None, None, None, None, None)

\* shapes of tests that occur under both names
TestShapes ==
    {<<"list_tools", None,
       <<[NoFields("tool_count") EXCEPT !.min = Some(1)], NoFields("schema_valid")>>>>,
     <<"call_tool", Some("get_json"),
       <<NoFields("success"),
         [NoFields("output_json_schema") EXCEPT !.schema = Some(Schema("number", Some("s")))]>>>>}

\* shapes of tests that occur under one name: three more that validateConfig
\* accepts and two that it rejects
OtherShapes ==
    {<<"call_tool", Some("search"),
       <<[NoFields("output_contains") EXCEPT !.value = Some(<<"1">>)],
         [NoFields("output_matches") EXCEPT !.pattern = Some(<<"(">>)]>>>>,
     <<"list_resources", None,
       <<[NoFields("resource_count") EXCEPT !.exact = Some(1)]>>>>,
     <<"list_prompts", None,
       <<[NoFields("prompt_count") EXCEPT !.min = Some(0)],
         [NoFields("response_time") EXCEPT !.ms = Some(0)]>>>>,
     <<"call_tool", None, <<NoFields("success")>>>>,
     <<"list_tools", None, <<>>>>}

CandidateTests ==
    {Test(Some(n), s[1], s[2], Some(s[3])) : n \in {"a", "b"}, s \in TestShapes}
    \cup {Test(Some("a"), s[1], s[2], Some(s[3])) : s \in OtherShapes}
    \cup {Test(Some(""), "list_tools", None, Some(<<NoFields("schema_valid")>>))}

CandidateConfigs ==
    {[kind |-> "object", server |-> Some(StdioServer), tests |-> Some(ts)] :
         ts \in SeqsUpTo(CandidateTests, MaxTests)}

\* what the run command finds at the path of the configuration file
Files == {None} \cup {Some(c) : c \in CandidateConfigs}

\* a configuration as parsed from the file: the schemas of the assertions
\* are distinct objects
AllocateConfig(c) ==
    [c EXCEPT !.tests =
        [i \in 1..Len(c.tests) |->
            [c.tests[i] EXCEPT !.assert =
                [j \in 1..Len(c.tests[i].assert) |->
                    IF IsSome(c.tests[i].assert[j].schema)
                    THEN [c.tests[i].assert[j] EXCEPT !.schema = Some(SchemaAt(Val(@), 10 * i + j))]
                    ELSE c.tests[i].assert[j]]]]]


\* errors the transport raises
ConnectErrors == {"spawn ENOENT", "Connection closed"}
SessionErrors == {"Request timed out"}

\* the reply to request i as parsed from the wire: the input schemas of the
\* tools are new objects
AllocateReply(reply, i) ==
    IF IsSome(reply.payload.tools)
    THEN [reply EXCEPT !.payload.tools = Some(AllocateTools(Val(@), 100 + 10 * i))]
    ELSE reply

SessionReplies(action) ==
    {SessionError(m) : m \in SessionErrors}
    \cup CASE action = "list_tools" ->
                {Reply("tools", l) :
                     l \in {<<>>,
                            <<[name |-> Some("a"), description |-> Some("d"),
                              inputSchema |-> Some(Schema("object", Some("s")))]>>}}
           [] action = "call_tool" ->
                {Reply("toolResult", r) :
                     r \in {[content |-> <<[type |-> "text", text |-> Some(<<"1">>)]>>, isError |-> None],
                            [content |-> <<[type |-> "text", text |-> Some(<<"x">>)]>>, isError |-> Some(TRUE)]}}
           [] action = "list_resources" ->
                {Reply("resources", l) : l \in SeqsUpTo({[uri |-> "r"]}, 1)}
           [] action = "list_prompts" ->
                {Reply("prompts", l) : l \in SeqsUpTo({[name |-> "p"]}, 1)}

----------------------------------------------------------------------------
(* Spec: one run of runTests *)

NoEval ==
    /\ evAssertion = NoFields("success")
    /\ evCtx = EmptyCtx
    /\ evalOut = None

Init ==
    /\ file \in Files
    /\ exitCode = None
    /\ stderr = None
    /\ config = NoConfig
    /\ pc = "load"
    /\ idx = 1
    /\ results = <<>>
    /\ responses = <<>>
    /\ caught = None
    /\ events = <<>>
    /\ ajv = EmptyAjv
    /\ runResult = None
    /\ now = runStart
    /\ NoEval

\* loadConfig(resolve(opts.file)) returns the validated configuration
LoadOk ==
    /\ pc = "load"
    /\ IsSome(file)
    /\ validateConfig(Val(file))
    /\ config' = AllocateConfig(AsMcpTestConfig(Val(file)))
    /\ pc' = "start"
    /\ UNCHANGED <<idx, results, responses, caught, events, ajv, runResult, now>>
    /\ UNCHANGED evalVars
    /\ UNCHANGED cliVars

\* loadConfig throws (no such file, or validateConfig throws): the catch
\* block of the run command writes the message and exits with 1
LoadFail ==
    /\ pc = "load"
    /\ IF IsSome(file) THEN ~validateConfig(Val(file)) ELSE TRUE
    /\ stderr' = Some(<<"Error: ">>
                      \o (IF IsSome(file) THEN validateConfigError(Val(file))
                          ELSE <<"Config file not found: ">>))
    /\ exitCode' = Some(1)
    /\ pc' = "exited"
    /\ UNCHANGED <<file, config, idx, results, responses, caught, events, ajv, runResult, now>>
    /\ UNCHANGED evalVars

\* await client.connect(config.server): the call is made
Connect ==
    /\ pc = "start"
    /\ pc' = "connecting"
    /\ events' = Append(events, "connect")
    /\ UNCHANGED <<config, idx, results, responses, caught, ajv, runResult, now>>
    /\ UNCHANGED evalVars
    /\ UNCHANGED cliVars

\* time passes while a call is awaited
Tick == \E dt \in 0..(MaxElapsed - now) : now' = now + dt

\* connect resolves: enter the for-loop
ConnectOk ==
    /\ pc = "connecting"
    /\ pc' = "loop"
    /\ Tick
    /\ UNCHANGED <<config, idx, results, responses, caught, events, ajv, runResult>>
    /\ UNCHANGED evalVars
    /\ UNCHANGED cliVars

\* connect rejects: control passes to the catch block
ConnectFail ==
    /\ pc = "connecting"
    /\ \E m \in ConnectErrors : caught' = Some(<<m>>)
    /\ pc' = "catch"
    /\ Tick
    /\ UNCHANGED <<config, idx, results, responses, events, ajv, runResult>>
    /\ UNCHANGED evalVars
    /\ UNCHANGED cliVars

\* Dispatch with the request sent a second time
Dispatch_twice ==
    /\ pc = "loop"
    /\ idx <= Len(config.tests)
    /\ events' = events \o <<RequestOf(config.tests[idx].action), RequestOf(config.tests[idx].action)>>
    /\ pc' = "awaiting"
    /\ UNCHANGED <<config, idx, results, responses, caught, ajv, runResult, now>>
    /\ UNCHANGED evalVars
    /\ UNCHANGED cliVars

\* runSingleTest(client, test) up to its await: the request is issued
Dispatch ==
    /\ pc = "loop"
    /\ idx <= Len(config.tests)
    /\ events' = Append(events, RequestOf(config.tests[idx].action))
    /\ pc' = "awaiting"
    /\ UNCHANGED <<config, idx, results, responses, caught, ajv, runResult, now>>
    /\ UNCHANGED evalVars
    /\ UNCHANGED cliVars

\* Complete with the result of a test whose call threw not pushed
Complete_dropsThrown ==
    /\ pc = "awaiting"
    /\ \E reply \in {AllocateReply(x, idx) : x \in SessionReplies(config.tests[idx].action)},
          elapsed \in 0..(MaxElapsed - now) :
         \E late \in elapsed..(MaxElapsed - now) :
           LET r == runSingleTest(config.tests[idx], reply, elapsed, late, ajv)
           IN  \* the clock is read a second time only when an evaluator threw
               /\ (reply.threw \/ ~IsSome(r.result.error)) => late = elapsed
               /\ results' = IF reply.threw THEN results ELSE Append(results, r.result)
               /\ ajv' = r.ajv
               /\ responses' = Append(responses, [reply |-> reply, elapsed |-> elapsed, late |-> late])
               /\ now' = now + late
    /\ idx' = idx + 1
    /\ pc' = "loop"
    /\ UNCHANGED <<config, caught, events, runResult>>
    /\ UNCHANGED evalVars
    /\ UNCHANGED cliVars

\* the awaited call settles; runSingleTest returns and the result is pushed
Complete ==
    /\ pc = "awaiting"
    /\ \E reply \in {AllocateReply(x, idx) : x \in SessionReplies(config.tests[idx].action)},
          elapsed \in 0..(MaxElapsed - now) :
         \E late \in elapsed..(MaxElapsed - now) :
           LET r == runSingleTest(config.tests[idx], reply, elapsed, late, ajv)
           IN  \* the clock is read a second time only when an evaluator threw
               /\ (reply.threw \/ ~IsSome(r.result.error)) => late = elapsed
               /\ results' = Append(results, r.result)
               /\ ajv' = r.ajv
               /\ responses' = Append(responses, [reply |-> reply, elapsed |-> elapsed, late |-> late])
               /\ now' = now + late
    /\ idx' = idx + 1
    /\ pc' = "loop"
    /\ UNCHANGED <<config, caught, events, runResult>>
    /\ UNCHANGED evalVars
    /\ UNCHANGED cliVars

\* the for-loop is exhausted: control passes to the finally block
LoopExit ==
    /\ pc = "loop"
    /\ idx > Len(config.tests)
    /\ pc' = "finally"
    /\ UNCHANGED <<config, idx, results, responses, caught, events, ajv, runResult, now>>
    /\ UNCHANGED evalVars
    /\ UNCHANGED cliVars

\* Catch with close() at the end of the try block instead of in finally
Catch_skipsClose ==
    /\ pc = "catch"
    /\ results' = markRemaining(config.tests, results, Val(caught))
    /\ pc' = "aggregate"
    /\ UNCHANGED <<config, idx, responses, caught, events, ajv, runResult, now>>
    /\ UNCHANGED evalVars
    /\ UNCHANGED cliVars

\* catch (e): mark the tests without a result as failed
Catch ==
    /\ pc = "catch"
    /\ results' = markRemaining(config.tests, results, Val(caught))
    /\ pc' = "finally"
    /\ UNCHANGED <<config, idx, responses, caught, events, ajv, runResult, now>>
    /\ UNCHANGED evalVars
    /\ UNCHANGED cliVars

\* finally: await client.close(), the call is made
Close ==
    /\ pc = "finally"
    /\ events' = Append(events, "close")
    /\ pc' = "closing"
    /\ UNCHANGED <<config, idx, results, responses, caught, ajv, runResult, now>>
    /\ UNCHANGED evalVars
    /\ UNCHANGED cliVars

\* transport.close() resolves
CloseOk ==
    /\ pc = "closing"
    /\ pc' = "aggregate"
    /\ Tick
    /\ UNCHANGED <<config, idx, results, responses, caught, events, ajv, runResult>>
    /\ UNCHANGED evalVars
    /\ UNCHANGED cliVars

\* CloseFail with the error of transport.close() escaping runTests: the run
\* command's catch block writes it and exits
CloseFail_propagates ==
    /\ pc = "closing"
    /\ events' = Append(events, "closeFailed")
    /\ stderr' = Some(<<"Error: ", "close failed">>)
    /\ exitCode' = Some(1)
    /\ pc' = "exited"
    /\ Tick
    /\ UNCHANGED <<file, config, idx, results, responses, caught, ajv, runResult>>
    /\ UNCHANGED evalVars

\* transport.close() rejects: McpClient.close swallows the error
CloseFail ==
    /\ pc = "closing"
    /\ events' = Append(events, "closeFailed")
    /\ pc' = "aggregate"
    /\ Tick
    /\ UNCHANGED <<config, idx, results, responses, caught, ajv, runResult>>
    /\ UNCHANGED evalVars
    /\ UNCHANGED cliVars

\* the totals are computed and the RunResult is returned
Return ==
    /\ pc = "aggregate"
    /\ runResult' = Some(makeRunResult(results, now - runStart))
    /\ pc' = "done"
    /\ UNCHANGED <<config, idx, results, responses, caught, events, ajv, now>>
    /\ UNCHANGED evalVars
    /\ UNCHANGED cliVars

\* Exit with status 0 when some test passed
Exit_somePassed ==
    /\ pc = "done"
    /\ exitCode' = Some(IF Val(runResult).totalPassed > 0 THEN 0 ELSE 1)
    /\ pc' = "exited"
    /\ UNCHANGED <<file, stderr, config, idx, results, responses, caught, events, ajv,
                   runResult, now>>
    /\ UNCHANGED evalVars

\* the report is written and process.exit(result.totalFailed > 0 ? 1 : 0)
Exit ==
    /\ pc = "done"
    /\ exitCode' = Some(IF Val(runResult).totalFailed > 0 THEN 1 ELSE 0)
    /\ pc' = "exited"
    /\ UNCHANGED <<file, stderr, config, idx, results, responses, caught, events, ajv,
                   runResult, now>>
    /\ UNCHANGED evalVars

Next ==
    \/ LoadOk
    \/ LoadFail
    \/ Connect
    \/ ConnectOk
    \/ ConnectFail
    \/ Dispatch
    \/ Complete
    \/ LoopExit
    \/ Catch
    \/ Close
    \/ CloseOk
    \/ CloseFail
    \/ Return
    \/ Exit

Spec == Init /\ [][Next]_vars

\* Every awaited call (connect, the request of a test, close) eventually
\* settles, and the synchronous steps between them are taken: no step that
\* is possible is postponed forever.
\* The files of the runs whose termination is checked: every file with at
\* most one test, and the files with two tests named "a" then "b".
LiveFiles ==
    {f \in Files :
        IF IsSome(f)
        THEN LET ts == Val(Val(f).tests)
             IN  \/ Len(ts) <= 1
                 \/ Len(ts) = 2 /\ ts[1].name = Some("a") /\ ts[2].name = Some("b")
                    /\ ts[1].action = "list_tools" /\ ts[2].action = "call_tool"
        ELSE TRUE}

LiveInit == Init /\ file \in LiveFiles

LiveSpec == LiveInit /\ [][Next]_vars /\ WF_vars(Next)

----------------------------------------------------------------------------
(* Properties of a run *)

\* the for-loop of runTests as a function of the settled session calls: the
\* results it pushes when test k gets calls[k]
RECURSIVE replay(_, _, _, _)
replay(tests, calls, aj, done) ==
    IF tests = <<>> \/ calls = <<>> THEN done
    ELSE LET r == runSingleTest(Head(tests), Head(calls).reply, Head(calls).elapsed,
                                Head(calls).late, aj)
         IN  replay(Tail(tests), Tail(calls), r.ajv, Append(done, r.result))

\* C1: when the session call of test i throws a session error, test i is
\* recorded as failed with that error message, every later test is still
\* dispatched and recorded, and the result recorded for each later test is
\* the one it would have had if the call of test i had returned normally
\* (whatever it returned), the other session calls being the same.
C1_FailIsolation ==
    \A i \in 1..Len(responses) :
        responses[i].reply.threw =>
            /\ ~results[i].passed
            /\ results[i].error = Some(responses[i].reply.message)
            /\ (pc = "done" => Len(results) = Len(config.tests))
            /\ \A r \in {x \in SessionReplies(config.tests[i].action) : ~x.threw} :
                   LET alt == replay(config.tests, [responses EXCEPT ![i].reply = r],
                                     EmptyAjv, <<>>)
                   IN  \A j \in (i + 1)..Len(results) : results[j] = alt[j]

\* C2: every run that returns a RunResult has invoked close() first, and no
\* list/call request is issued to the session after close() was invoked.
C2_UnconditionalTeardown ==
    /\ (IsSome(runResult) => \E k \in 1..Len(events) : events[k] = "close")
    /\ \A k \in 1..Len(events) :
           events[k] = "close" => \A l \in (k + 1)..Len(events) : events[l] \notin Requests

\* a run whose connect failed has returned, and close() was invoked
C2_Witness ==
    /\ pc = "done"
    /\ IsSome(caught)
    /\ \E k \in 1..Len(events) : events[k] = "close"

\* C3: when connect fails no request is issued to the session, every
\* TestResult of the RunResult is failed with no assertions and the same
\* connection-error message, and the totals of passed tests, assertions and
\* passed assertions are all 0.
C3_ConnectFailureAttemptsNothing ==
    (IsSome(runResult) /\ IsSome(caught)) =>
        LET rr == Val(runResult)
        IN  /\ \A k \in 1..Len(events) : events[k] \notin Requests
            /\ \A k \in 1..Len(rr.tests) :
                   /\ ~rr.tests[k].passed
                   /\ rr.tests[k].assertions = <<>>
                   /\ rr.tests[k].error = Some(<<"Server connection error: ">> \o Val(caught))
            /\ rr.totalPassed = 0
            /\ rr.totalAssertions = 0
            /\ rr.passedAssertions = 0

\* connect failed for a configuration of two differently named tests
C3_Witness ==
    /\ IsSome(runResult)
    /\ IsSome(caught)
    /\ Len(Val(runResult).tests) = 2
    /\ Val(runResult).tests[1].name # Val(runResult).tests[2].name

\* C4: when connect fails, the RunResult of a validated configuration of n
\* tests has exactly n entries, entry i being a failed entry for declared
\* test i, and totalFailed = n.
C4_ConnectFailureReportsEveryTest ==
    (IsSome(runResult) /\ IsSome(caught)) =>
        LET rr == Val(runResult)
        IN  /\ validateConfig(Val(file))
            /\ Len(rr.tests) = Len(config.tests)
            /\ rr.totalFailed = Len(config.tests)
            /\ \A k \in 1..Len(rr.tests) :
                   rr.tests[k].name = config.tests[k].name /\ ~rr.tests[k].passed

\* C5: when connect succeeds, RunResult.tests has one entry per configured
\* test case and entry i carries the name of configured test case i.
C5_OrderPreservation ==
    (IsSome(runResult) /\ ~IsSome(caught)) =>
        LET rr == Val(runResult)
        IN  /\ Len(rr.tests) = Len(config.tests)
            /\ \A k \in 1..Len(rr.tests) : rr.tests[k].name = config.tests[k].name

\* a returned run of two differently named tests, the first hit by a session
\* error, the second evaluated with a failing assertion
C5_Witness ==
    /\ IsSome(runResult)
    /\ ~IsSome(caught)
    /\ Len(Val(runResult).tests) = 2
    /\ Val(runResult).tests[1].name # Val(runResult).tests[2].name
    /\ responses[1].reply.threw
    /\ ~responses[2].reply.threw
    /\ ~Val(runResult).tests[2].passed
    /\ Val(runResult).tests[2].assertions # <<>>

\* C6: a TestResult is passed iff it records no error and every one of its
\* AssertionResults passed; a TestResult that records an error has no
\* AssertionResults.
C6_PassedIffNoErrorAndAllPassed ==
    \A k \in 1..Len(results) :
        LET t == results[k]
        IN  /\ t.passed <=> (~IsSome(t.error)
                             /\ \A j \in 1..Len(t.assertions) :
                                    t.assertions[j].kind = "result" /\ t.assertions[j].passed)
            /\ (IsSome(t.error) => t.assertions = <<>>)

\* a test with one passed and one failed assertion next to a test that
\* recorded a session error
C6_Witness ==
    \E k, l \in 1..Len(results) :
        /\ ~results[k].passed
        /\ ~IsSome(results[k].error)
        /\ \E j \in 1..Len(results[k].assertions) : results[k].assertions[j].passed
        /\ \E j \in 1..Len(results[k].assertions) : ~results[k].assertions[j].passed
        /\ IsSome(results[l].error)
        /\ responses[l].reply.threw

----------------------------------------------------------------------------
(* Properties of evaluateAssertion *)

\* C7: for every assertion whose type validateConfig accepts, with any
\* content of the optional fields, and every context, evaluateAssertion
\* returns an AssertionResult (a pass flag and a message) and does not throw.
C7_EvaluateAssertionTotal ==
    (IsSome(evalOut) /\ evAssertion.type \in VALID_ASSERTION_TYPES) =>
        Val(evalOut).kind = "result"

\* C8: for every type that is not one of the 13 recognised kinds,
\* evaluateAssertion returns a failed AssertionResult whose message names
\* the type, whatever the context.
C8_UnknownTypeFails ==
    (IsSome(evalOut) /\ evAssertion.type \notin VALID_ASSERTION_TYPES) =>
        /\ Val(evalOut).kind = "result"
        /\ ~Val(evalOut).passed
        /\ \E k \in 1..Len(Val(evalOut).message) : Val(evalOut).message[k] = evAssertion.type

\* C9: on a context holding a tool-call result, exactly one of the success
\* and error assertions passes: error when isError is true, success
\* otherwise.
C9_SuccessErrorExclusive ==
    (IsSome(evalOut) /\ IsSome(evCtx.toolResult) /\ evAssertion.type \in {"success", "error"}) =>
        LET other == IF evAssertion.type = "success" THEN "error" ELSE "success"
            mine == Val(evalOut)
            theirs == evaluateAssertion(NoFields(other), evCtx, ajv).out
            isError == Val(evCtx.toolResult).isError = Some(TRUE)
        IN  /\ mine.kind = "result"
            /\ theirs.kind = "result"
            /\ mine.passed # theirs.passed
            /\ mine.passed <=> (IF evAssertion.type = "error" THEN isError ELSE ~isError)

\* success was evaluated, and passed, on a result whose isError is absent
C9_Witness ==
    /\ IsSome(evalOut)
    /\ evAssertion.type = "success"
    /\ IsSome(evCtx.toolResult)
    /\ Val(evCtx.toolResult).isError = None
    /\ Val(evalOut).passed

\* the list a counting assertion counts
CountedList(type, c) ==
    CASE type = "tool_count" -> c.tools
      [] type = "resource_count" -> c.resources
      [] type = "prompt_count" -> c.prompts

\* C10: a counting assertion that specifies exact passes iff the length of
\* its list (0 when absent) equals exact, whatever min and max are.
C10_ExactTakesPrecedence ==
    (/\ IsSome(evalOut)
     /\ evAssertion.type \in {"tool_count", "resource_count", "prompt_count"}
     /\ IsSome(evAssertion.exact)) =>
        LET list == CountedList(evAssertion.type, evCtx)
            actual == IF IsSome(list) THEN Len(Val(list)) ELSE 0
        IN  /\ Val(evalOut).kind = "result"
            /\ Val(evalOut).passed <=> (actual = Val(evAssertion.exact))

\* a count equal to exact passed although it is below min and above max
C10_Witness ==
    /\ IsSome(evalOut)
    /\ evAssertion.type = "tool_count"
    /\ IsSome(evCtx.tools)
    /\ Len(Val(evCtx.tools)) = 1
    /\ evAssertion.exact = Some(1)
    /\ evAssertion.min = Some(2)
    /\ evAssertion.max = Some(0)
    /\ Val(evalOut).passed

\* C11: a counting assertion without exact passes iff (min is absent or the
\* count >= min) and (max is absent or the count <= max), the count being the
\* length of its list and 0 when the list is absent; with none of exact, min
\* and max set it passes for every count.
C11_RangeForm ==
    (/\ IsSome(evalOut)
     /\ evAssertion.type \in {"tool_count", "resource_count", "prompt_count"}
     /\ ~IsSome(evAssertion.exact)) =>
        LET list == CountedList(evAssertion.type, evCtx)
            actual == IF IsSome(list) THEN Len(Val(list)) ELSE 0
            lo == evAssertion.min
            hi == evAssertion.max
        IN  /\ Val(evalOut).kind = "result"
            /\ Val(evalOut).passed <=> ((lo = None \/ actual >= Val(lo)) /\ (hi = None \/ actual <= Val(hi)))
            /\ (lo = None /\ hi = None) => Val(evalOut).passed

\* a list of one tool passed min 1 and max 1
C11_Witness ==
    /\ IsSome(evalOut)
    /\ evAssertion.type = "tool_count"
    /\ evAssertion.exact = None
    /\ evAssertion.min = Some(1)
    /\ evAssertion.max = Some(1)
    /\ IsSome(evCtx.tools)
    /\ Len(Val(evCtx.tools)) = 1
    /\ Val(evalOut).passed

\* The text of the first n content blocks, built block by block: a block
\* that counts appends its text, after a newline when an earlier block
\* counted.  A block counts when its type is "text" and, with nonEmptyOnly,
\* its text is present and not empty.
RECURSIVE TextOfFirst(_, _, _)
TextOfFirst(content, n, nonEmptyOnly) ==
    IF n = 0 THEN [any |-> FALSE, text |-> <<>>]
    ELSE LET prev == TextOfFirst(content, n - 1, nonEmptyOnly)
             b == content[n]
             t == IF IsSome(b.text) THEN Val(b.text) ELSE <<>>
             counts == b.type = "text" /\ (nonEmptyOnly => t # <<>>)
         IN  IF ~counts THEN prev
             ELSE [any |-> TRUE, text |-> IF prev.any THEN prev.text \o <<"\n">> \o t ELSE t]

\* the outcome of a text-based assertion on a tool-call result is the one
\* its rule gives on the text T
OperatesOn(T) ==
    LET a == evAssertion
        out == Val(evalOut)
    IN  CASE a.type = "output_contains" ->
                 out.passed <=> Includes(T, OptTextToString(a.value))
          [] a.type = "error_contains" ->
                 out.passed <=> (Val(evCtx.toolResult).isError = Some(TRUE)
                                 /\ Includes(T, OptTextToString(a.value)))
          [] a.type = "output_matches" ->
                 RegExpThrows(a.pattern) \/ (out.passed <=> RegExpTest(a.pattern, T))
          [] a.type = "output_json" ->
                 out.passed <=> (JSONParse(T) # "SyntaxError")
          [] a.type = "output_json_schema" ->
                 IF JSONParse(T) = "SyntaxError"
                 THEN out.kind = "result" /\ ~out.passed /\ out.message = <<"Output is not valid JSON">>
                 ELSE out.kind = "throw"
                      \/ (out.passed <=> AjvValidate(Val(a.schema), JSONParse(T)))

TextBased ==
    {"output_contains", "output_matches", "output_json", "output_json_schema", "error_contains"}

\* C12 as stated: the text the five text-based assertions operate on is the
\* newline-joined concatenation, in list order, of the text of every content
\* block whose type is "text"; blocks of any other type contribute nothing.
C12_TextOfEveryTextualBlock ==
    (IsSome(evalOut) /\ IsSome(evCtx.toolResult) /\ evAssertion.type \in TextBased) =>
        LET content == Val(evCtx.toolResult).content
        IN  OperatesOn(TextOfFirst(content, Len(content), FALSE).text)

\* C12, amended: the text the five text-based assertions operate on is the
\* newline-joined concatenation, in list order, of the text of every content
\* block whose type is "text" and whose text is present and not empty; every
\* other block contributes nothing, not even a separator.
C12_TextOfNonEmptyTextualBlocks ==
    (IsSome(evalOut) /\ IsSome(evCtx.toolResult) /\ evAssertion.type \in TextBased) =>
        LET content == Val(evCtx.toolResult).content
        IN  OperatesOn(TextOfFirst(content, Len(content), TRUE).text)

\* output_contains found "1", newline, "x" in a result of two text blocks
C12_Witness ==
    /\ IsSome(evalOut)
    /\ evAssertion.type = "output_contains"
    /\ evAssertion.value = Some(<<"1", "\n", "x">>)
    /\ IsSome(evCtx.toolResult)
    /\ Len(Val(evCtx.toolResult).content) = 2
    /\ \A k \in 1..2 : Val(evCtx.toolResult).content[k].type = "text"
    /\ Val(evalOut).passed

\* C13: evaluating the same assertion against the same context again
\* yields the same outcome: the same pass flag and the same message.
C13_Idempotence ==
    \A k \in 1..Len(evalOut) :
        /\ evalOut[k].kind = evalOut[1].kind
        /\ evalOut[k].passed = evalOut[1].passed
        /\ evalOut[k].message = evalOut[1].message

\* C14: error_contains passes iff a tool-call result is present, its isError
\* is true and its concatenated text contains the value as a literal
\* substring; wherever error_contains passes, the error assertion passes on
\* the same context.
C14_ErrorContains ==
    (IsSome(evalOut) /\ evAssertion.type = "error_contains") =>
        LET out == Val(evalOut)
            present == IsSome(evCtx.toolResult)
            content == Val(evCtx.toolResult).content
        IN  /\ out.kind = "result"
            /\ IsSome(evAssertion.value) =>
                   (out.passed <=> (/\ present
                                    /\ Val(evCtx.toolResult).isError = Some(TRUE)
                                    /\ Includes(TextOfFirst(content, Len(content), TRUE).text,
                                                Val(evAssertion.value))))
            /\ out.passed => evaluateAssertion(NoFields("error"), evCtx, ajv).out.passed

\* error_contains passed on an error result whose text contains the value
C14_Witness ==
    /\ IsSome(evalOut)
    /\ evAssertion.type = "error_contains"
    /\ evAssertion.value = Some(<<"x">>)
    /\ IsSome(evCtx.toolResult)
    /\ Val(evCtx.toolResult).isError = Some(TRUE)
    /\ Val(evalOut).passed

\* how many times a token occurs in a message
Occurrences(message, token) == Cardinality({k \in 1..Len(message) : message[k] = token})

\* C15: schema_valid passes iff the tool list is present and not empty, every
\* tool has a non-empty name and every input schema that is present is a
\* valid JSON Schema; when it fails on a non-empty list the message holds one
\* violation for every tool without a name and one for every tool whose
\* input schema is not valid.
C15_SchemaValid ==
    (IsSome(evalOut) /\ evAssertion.type = "schema_valid") =>
        LET out == Val(evalOut)
            tools == IF IsSome(evCtx.tools) THEN Val(evCtx.tools) ELSE <<>>
            unnamed == {k \in 1..Len(tools) : tools[k].name = None \/ tools[k].name = Some("")}
            invalid == {k \in 1..Len(tools) :
                            IsSome(tools[k].inputSchema) /\ Val(tools[k].inputSchema).kind = "bad"}
        IN  /\ out.kind = "result"
            /\ out.passed <=> (Len(tools) > 0 /\ unnamed = {} /\ invalid = {})
            /\ (Len(tools) > 0 /\ ~out.passed) =>
                   /\ Occurrences(out.message, "Tool missing 'name'") = Cardinality(unnamed)
                   /\ Occurrences(out.message, "\" has invalid inputSchema: ") = Cardinality(invalid)

\* C16: a response_time assertion of a test passes iff the time measured
\* for the test's session call is at most the declared ms: it passes when
\* the two are equal and fails when the measured time is greater.
C16_ResponseTimeInclusive ==
    \A k \in 1..Len(results) :
        \A j \in 1..Len(results[k].assertions) :
            LET r == results[k].assertions[j]
            IN  (r.assertion.type = "response_time" /\ IsSome(r.assertion.ms)) =>
                    /\ r.kind = "result"
                    /\ r.passed <=> (responses[k].elapsed <= Val(r.assertion.ms))

\* a call measured at exactly the declared ms passed, and in the same run a
\* call measured above it failed
C16_Witness ==
    /\ \E k \in 1..Len(results) : \E j \in 1..Len(results[k].assertions) :
           /\ results[k].assertions[j].assertion.type = "response_time"
           /\ responses[k].elapsed = Val(results[k].assertions[j].assertion.ms)
           /\ results[k].assertions[j].passed
    /\ \E k \in 1..Len(results) : \E j \in 1..Len(results[k].assertions) :
           /\ results[k].assertions[j].assertion.type = "response_time"
           /\ responses[k].elapsed > Val(results[k].assertions[j].assertion.ms)
           /\ ~results[k].assertions[j].passed

----------------------------------------------------------------------------
(* ValidateSpec: one call of validateConfig on an arbitrary parsed value *)

Transports == {None, Some("stdio"), Some("sse"), Some("streamable-http"), Some("websocket")}

ParsedServers ==
    {Server(command, args, env, transport, url, headers) :
         command \in {None, Some(""), Some("node")},
         args \in {None, Some("array"), Some("string")},
         env \in {None, Some("object"), Some("string")},
         transport \in Transports,
         url \in {None, Some("http://localhost:3000/sse")},
         headers \in {None, Some("object")}}

ParsedTests ==
    {Test(n, "list_tools", None, a) :
         n \in {None, Some(""), Some("a")},
         a \in {None, Some(<<>>), Some(<<NoFields("schema_valid")>>)}}
    \cup {Test(Some("b"), "call_tool", t, Some(<<NoFields("success"), NoFields(k)>>)) :
              t \in {None, Some(""), Some("echo")}, k \in {"error", "bogus", "constructor"}}
    \cup {Test(Some("c"), act, None, Some(<<NoFields("tool_count")>>)) :
              act \in {"list_resources", "list_prompts", "bogus", ""}}

\* a valid tests section
GoodTests == <<Test(Some("a"), "list_tools", None, Some(<<NoFields("schema_valid")>>))>>

\* server sections the tests sections are combined with: stdio, a url
\* transport without command, and an unknown transport
SampleServers ==
    {StdioServer,
     Server(None, None, None, Some("sse"), Some("http://localhost:3000/sse"), None),
     Server(Some("node"), None, None, Some("websocket"), None, None)}

\* every server section with a valid or a missing tests section, and every
\* tests section with a sample of the server sections
ParsedConfigs ==
    {[kind |-> k, server |-> None, tests |-> None] : k \in {"null", "string", "object"}}
    \cup {[kind |-> "object", server |-> s, tests |-> t] :
              s \in {None} \cup {Some(x) : x \in ParsedServers},
              t \in {None, Some(GoodTests)}}
    \cup {[kind |-> "object", server |-> Some(s), tests |-> Some(ts)] :
              s \in SampleServers, ts \in SeqsUpTo(ParsedTests, MaxTests)}

ValidateInit ==
    /\ file \in {Some(c) : c \in ParsedConfigs}
    /\ exitCode = None
    /\ stderr = None
    /\ config = NoConfig
    /\ pc = "validate"
    /\ idx = 1
    /\ results = <<>>
    /\ responses = <<>>
    /\ caught = None
    /\ events = <<>>
    /\ ajv = EmptyAjv
    /\ runResult = None
    /\ now = runStart
    /\ NoEval

\* validateConfig(parsed) returns the value it was given
ValidateReturns ==
    /\ pc = "validate"
    /\ validateConfig(Val(file))
    /\ config' = AsMcpTestConfig(Val(file))
    /\ pc' = "validated"
    /\ UNCHANGED <<idx, results, responses, caught, events, ajv, runResult, now>>
    /\ UNCHANGED evalVars
    /\ UNCHANGED cliVars

\* validateConfig(parsed) throws: the validate command writes the message
\* and exits with 1
ValidateThrows ==
    /\ pc = "validate"
    /\ ~validateConfig(Val(file))
    /\ stderr' = Some(<<"Validation error: ">> \o validateConfigError(Val(file)))
    /\ exitCode' = Some(1)
    /\ pc' = "invalid"
    /\ UNCHANGED <<file, config, idx, results, responses, caught, events, ajv, runResult, now>>
    /\ UNCHANGED evalVars

ValidateNext == ValidateReturns \/ ValidateThrows

ValidateSpec == ValidateInit /\ [][ValidateNext]_vars

----------------------------------------------------------------------------
(* Properties of validateConfig *)

\* the parsed value has a server section
HasServer(c) == c.kind = "object" /\ IsSome(c.server)

\* a stdio configuration: no transport declared, or transport stdio
IsStdio(c) == HasServer(c) => Val(c.server).transport \in {None, Some("stdio")}

\* a test with a non-empty name, a recognised action, a tool when the action
\* is call_tool, and a non-empty assert list of recognised types
TestOk(t) ==
    /\ IsSome(t.name)
    /\ t.name # Some("")
    /\ t.action \in {"list_tools", "call_tool", "list_resources", "list_prompts"}
    /\ (t.action = "call_tool" => IsSome(t.tool))
    /\ IsSome(t.assert)
    /\ t.assert # Some(<<>>)
    /\ \A j \in 1..Len(Val(t.assert)) : Val(t.assert)[j].type \in VALID_ASSERTION_TYPES

\* a valid tests section: a non-empty list of valid tests
TestsOk(c) ==
    /\ c.kind = "object"
    /\ IsSome(c.tests)
    /\ c.tests # Some(<<>>)
    /\ \A i \in 1..Len(Val(c.tests)) : TestOk(Val(c.tests)[i])

\* one of the listed defects holds: not an object, no server section, command
\* missing or empty, args present and not a list, or a defect in the tests
\* section
ListedDefect(c) ==
    IF ~HasServer(c) THEN TRUE
    ELSE \/ Val(c.server).command \in {None, Some("")}
         \/ Val(c.server).args \notin {None, Some("array")}
         \/ ~TestsOk(c)

EnvDefect(c) == HasServer(c) /\ Val(c.server).env \notin {None, Some("object")}

UrlConfig(c, transports) ==
    /\ HasServer(c)
    /\ Val(c.server).transport \in {Some(t) : t \in transports}
    /\ IsSome(Val(c.server).url)
    /\ Val(c.server).command = None
    /\ Val(c.server).args = None
    /\ Val(c.server).env = None
    /\ TestsOk(c)

\* C18: validateConfig returns a configuration that declares transport sse or
\* streamable-http with a url and no command, with or without headers, when
\* the tests section is valid; the returned configuration has the declared
\* transport and url.
C18_AcceptsUrlTransports ==
    (pc \in {"validated", "invalid"} /\ UrlConfig(Val(file), {"sse", "streamable-http"})) =>
        /\ pc = "validated"
        /\ config.server.transport = Val(Val(file).server).transport
        /\ config.server.url = Val(Val(file).server).url

\* C19: validateConfig throws when server.transport is present and is not one
\* of stdio, sse and streamable-http, even with a non-empty command and a
\* valid tests section.
C19_RejectsUnknownTransport ==
    (/\ pc \in {"validated", "invalid"}
     /\ HasServer(Val(file))
     /\ IsSome(Val(Val(file).server).transport)
     /\ Val(Val(file).server).transport \notin {Some("stdio"), Some("sse"), Some("streamable-http")}) =>
        pc = "invalid"

\* C20: the run command exits with 0 iff runTests returned a RunResult in
\* which every test passed (totalFailed = 0); it exits with a non-zero status
\* when a test failed, when connect failed and when the configuration could
\* not be loaded or validated.
C20_ExitStatus ==
    /\ IsSome(exitCode) <=> pc = "exited"
    /\ pc = "exited" =>
          LET code == Val(exitCode)
              loaded == IsSome(file) /\ validateConfig(Val(file))
          IN  /\ (code = 0) <=> (/\ IsSome(runResult)
                                 /\ Val(runResult).totalFailed = 0
                                 /\ \A k \in 1..Len(Val(runResult).tests) :
                                        Val(runResult).tests[k].passed)
              /\ ~loaded => (code # 0 /\ ~IsSome(runResult) /\ events = <<>>)
              /\ IsSome(caught) => code # 0
              /\ (\E k \in 1..Len(results) : ~results[k].passed) => code # 0

\* the run of a configuration of two tests exited with 0
C20_Witness ==
    /\ pc = "exited"
    /\ exitCode = Some(0)
    /\ IsSome(runResult)
    /\ Len(Val(runResult).tests) = 2

\* C21: schema_valid fails, and its message reports the tool, when a tool of
\* the list has no name, no description or no inputSchema.
C21_RequiredFields ==
    (IsSome(evalOut) /\ evAssertion.type = "schema_valid" /\ IsSome(evCtx.tools)) =>
        LET tools == Val(evCtx.tools)
            malformed == {k \in 1..Len(tools) :
                              \/ tools[k].name \in {None, Some("")}
                              \/ tools[k].description = None
                              \/ tools[k].inputSchema = None}
        IN  malformed # {} =>
                /\ Val(evalOut).kind = "result"
                /\ ~Val(evalOut).passed
                /\ Val(evalOut).message[1] = "Schema errors: "

\* C22: once runTests is called it eventually returns a RunResult, on every
\* path; while the transport is being closed, whether close succeeds or
\* fails, the recorded results do not change, and the RunResult is made of
\* exactly those results.
C22_RunReachesDone ==
    /\ (pc = "start") ~> IsSome(runResult)
    /\ [][pc = "closing" => results' = results]_vars
    /\ [](IsSome(runResult) => Val(runResult) = makeRunResult(results, Val(runResult).elapsedMs))

\* a run returned its RunResult after close() failed, with a recorded result
C22_Witness ==
    /\ IsSome(runResult)
    /\ \E k \in 1..Len(events) : events[k] = "closeFailed"
    /\ Len(Val(runResult).tests) = 2
    /\ Val(runResult).totalPassed = 1

----------------------------------------------------------------------------
(* Requests of a run *)

\* the session requests issued so far, in the order they were issued
IssuedRequests == SelectSeq(events, LAMBDA e : e \in Requests)

\* connect() resolved in this run
Connected ==
    /\ \E k \in 1..Len(events) : events[k] = "connect"
    /\ pc # "connecting"
    /\ caught = None

\* C23: after a successful connect the requests issued so far are, in
\* configuration order, one request per test that was started, each of the
\* kind of its test's action; a request is outstanding only while its test is
\* awaited, every earlier request has its TestResult recorded, and once the
\* loop is over there is exactly one request per configured test, failed
\* requests included.
C23_SequentialNoRetry ==
    Connected =>
        /\ Len(IssuedRequests) = (IF pc = "awaiting" THEN Len(results) + 1 ELSE Len(results))
        /\ Len(IssuedRequests) <= Len(config.tests)
        /\ \A k \in 1..Len(IssuedRequests) :
               IssuedRequests[k] = RequestOf(config.tests[k].action)
        /\ \A k \in 1..Len(results) : results[k].name = config.tests[k].name
        /\ pc \in {"finally", "closing", "aggregate", "done", "exited"} =>
               Len(IssuedRequests) = Len(config.tests)

\* a finished run of two tests whose first request failed: the second
\* request followed it and nothing was sent again
C23_Witness ==
    /\ Connected
    /\ pc = "exited"
    /\ IssuedRequests = <<"listTools", "callTool">>
    /\ IsSome(results[1].error)
    /\ responses[1].reply.threw

----------------------------------------------------------------------------
(* Results of the tests whose session call succeeded *)

\* C24: a test whose session call succeeded has exactly one AssertionResult
\* per declared assertion, AssertionResult j refers back to the declared
\* assertion j, and no error is recorded on the test.
C24_EveryAssertionEvaluated ==
    Connected =>
        \A k \in 1..Len(results) :
            ~responses[k].reply.threw =>
                /\ results[k].error = None
                /\ Len(results[k].assertions) = Len(config.tests[k].assert)
                /\ \A j \in 1..Len(results[k].assertions) :
                       results[k].assertions[j].assertion = config.tests[k].assert[j]

\* the observation fields of a context that are populated
Populated(c) == {f \in {"tools", "resources", "prompts", "toolResult"} : IsSome(c[f])}

\* the observation an action produces
ObservationOf(action) ==
    CASE action = "list_tools" -> "tools"
      [] action = "call_tool" -> "toolResult"
      [] action = "list_resources" -> "resources"
      [] action = "list_prompts" -> "prompts"

\* C25: for every test of a validated configuration whose session call
\* succeeded, the context handed to the evaluators has exactly one of tools,
\* resources, prompts and toolResult populated: the one of the test's action.
C25_ExactlyOneObservation ==
    Connected =>
        \A k \in 1..Len(responses) :
            ~responses[k].reply.threw =>
                Populated(buildContext(config.tests[k], responses[k].reply, responses[k].elapsed))
                    = {ObservationOf(config.tests[k].action)}

\* a list_tools test and a call_tool test whose calls both succeeded
C25_Witness ==
    /\ Connected
    /\ Len(responses) = 2
    /\ ~responses[1].reply.threw /\ ~responses[2].reply.threw
    /\ config.tests[1].action = "list_tools"
    /\ config.tests[2].action = "call_tool"
    /\ Len(results[2].assertions) = 2

----------------------------------------------------------------------------
(* The totals of a RunResult *)

\* the positions <<test, assertion>> of the AssertionResults of a list of
\* TestResults
AssertionSlots(res) ==
    UNION {{<<k, j>> : j \in 1..Len(res[k].assertions)} : k \in 1..Len(res)}

\* C26: in every RunResult returned by runTests totalPassed is the number of
\* tests with passed = true, totalFailed the number with passed = false,
\* their sum is the number of tests, totalAssertions is the number of
\* AssertionResults over all tests, and passedAssertions is the number of
\* those that passed, so passedAssertions <= totalAssertions.
C26_TotalsConsistent ==
    IsSome(runResult) =>
        LET r == Val(runResult)
            slots == AssertionSlots(r.tests)
        IN  /\ r.totalPassed = Cardinality({k \in 1..Len(r.tests) : r.tests[k].passed = TRUE})
            /\ r.totalFailed = Cardinality({k \in 1..Len(r.tests) : r.tests[k].passed = FALSE})
            /\ r.totalPassed + r.totalFailed = Len(r.tests)
            /\ r.totalAssertions = Cardinality(slots)
            /\ r.passedAssertions
                   = Cardinality({s \in slots : r.tests[s[1]].assertions[s[2]].passed})
            /\ r.passedAssertions <= r.totalAssertions

\* a RunResult with one passed test, one test that failed on an assertion
\* without an error, and some but not all assertions passed
C26_Witness ==
    /\ IsSome(runResult)
    /\ Val(runResult).totalPassed = 1
    /\ Val(runResult).totalFailed = 1
    /\ \A k \in 1..2 : Val(runResult).tests[k].error = None
    /\ Val(runResult).totalAssertions = 4
    /\ Val(runResult).passedAssertions = 3

----------------------------------------------------------------------------
(* The schema compiler across the tests of a run *)

\* C27: the AssertionResult of an output_json_schema or schema_valid
\* assertion of a run is the one the assertion yields on its context with a
\* compiler that has compiled nothing before: it does not depend on the
\* schemas compiled by the assertions evaluated earlier in the run.
C27_NoLeakThroughCompiler ==
    Connected =>
        \A k \in 1..Len(results) :
            \A j \in 1..Len(results[k].assertions) :
                LET a == config.tests[k].assert[j]
                    c == buildContext(config.tests[k], responses[k].reply, responses[k].elapsed)
                IN  a.type \in {"output_json_schema", "schema_valid"} =>
                        results[k].assertions[j].passed = evaluateAssertion(a, c, EmptyAjv).out.passed

----------------------------------------------------------------------------
(* Passed tests *)

\* C28: in every RunResult of a run on a configuration validateConfig
\* accepted, a test with passed = true has at least one AssertionResult, all
\* of its AssertionResults passed and it has no error; so a test with an
\* empty list of AssertionResults is failed.
C28_NoVacuousPass ==
    IsSome(runResult) =>
        \A k \in 1..Len(Val(runResult).tests) :
            LET t == Val(runResult).tests[k]
            IN  /\ t.passed =>
                    /\ Len(t.assertions) >= 1
                    /\ \A j \in 1..Len(t.assertions) : t.assertions[j].passed
                    /\ t.error = None
                /\ Len(t.assertions) = 0 => ~t.passed

\* a RunResult with a passed test of two assertions and a test that has no
\* AssertionResult because its session call failed
C28_Witness ==
    /\ IsSome(runResult)
    /\ Len(Val(runResult).tests) = 2
    /\ Val(runResult).tests[1].passed
    /\ Len(Val(runResult).tests[1].assertions) = 2
    /\ Val(runResult).tests[2].assertions = <<>>
    /\ IsSome(Val(runResult).tests[2].error)
    /\ validateConfig(Val(file))

----------------------------------------------------------------------------
(* Accepted types and evaluators *)

\* C29: validateConfig accepts the type of an assertion exactly when the
\* evaluators registry has an evaluator of that name, and evaluating an
\* assertion of an accepted type never yields the 'Unknown assertion type'
\* result, on any context.
C29_AcceptedTypesHaveEvaluators ==
    /\ VALID_ASSERTION_TYPES = EvaluatorKeys
    /\ IsSome(evalOut) =>
           /\ validateAssertion(evAssertion, 0, 0) = <<>> <=> evAssertion.type \in EvaluatorKeys
           /\ validateAssertion(evAssertion, 0, 0) = <<>> =>
                  \A k \in 1..Len(evalOut) :
                      evalOut[k].kind = "result" =>
                          evalOut[k].message[1] # "Unknown assertion type: "

\* an assertion of an accepted type was evaluated by its evaluator, which
\* returned a passing result
C29_Witness ==
    /\ IsSome(evalOut)
    /\ evAssertion.type = "prompt_count"
    /\ validateAssertion(evAssertion, 0, 0) = <<>>
    /\ Val(evalOut).kind = "result"
    /\ Val(evalOut).passed

----------------------------------------------------------------------------
(* Assertions on an observation the action does not produce *)

\* the evaluators that read the tool-call result, and those that read the
\* tool list and fail without one
NeedsToolResult ==
    {"success", "error", "error_contains", "output_contains", "output_matches",
     "output_json", "output_json_schema"}
NeedsToolList == {"contains_tool", "schema_valid"}

\* C30: an assertion of a type that reads the tool-call result, evaluated on
\* a context without one, and an assertion of type contains_tool or
\* schema_valid, evaluated on a context without a tool list, returns a
\* failed AssertionResult and does not throw, whatever its fields.
C30_MissingObservationFails ==
    ((\/ evAssertion.type \in NeedsToolResult /\ evCtx.toolResult = None
      \/ evAssertion.type \in NeedsToolList /\ evCtx.tools = None)) =>
        \A k \in 1..Len(evalOut) :
            /\ evalOut[k].kind = "result"
            /\ ~evalOut[k].passed

\* output_matches with a pattern that does not compile was evaluated on the
\* context of a list_tools test
C30_Witness ==
    /\ IsSome(evalOut)
    /\ evAssertion.type = "output_matches"
    /\ RegExpThrows(evAssertion.pattern)
    /\ evCtx.toolResult = None
    /\ IsSome(evCtx.tools)
    /\ Val(evalOut).message = <<"No tool result">>

====
